---- MODULE Spec2Model ----
(***************************************************************************)
(* Altfolio server: the investment routes (routes/investments.js), the     *)
(* auth middleware (middleware/auth.js), the dashboard route               *)
(* (routes/dashboard.js) and the two Mongoose collections they work on.    *)
(*                                                                         *)
(* State: the users collection, the investments collection, and the last   *)
(* request with the response the server gave to it.  Every HTTP handler is *)
(* one action: its middleware chain and its body, in the order of the      *)
(* source, up to the response.                                             *)
(*                                                                         *)
(* Ids.  A user id is a string; an investment id is its position in the    *)
(* collection (documents are never removed, so positions are stable).      *)
(* Every id a request carries is a well-formed ObjectId string; a          *)
(* malformed one makes findById throw and is not modelled.                 *)
(* Money is a whole number of dollars; a date is a day number.             *)
(***************************************************************************)
EXTENDS Integers, Sequences, FiniteSets, TLC

VARIABLES
  users,        \* the users collection: id -> document
  investments,  \* the investments collection, in creation order
  last,         \* the exchange in progress, Idle when there is none
  now,          \* the clock new Date() reads
  inflight      \* requests whose handlers run interleaved, by slot

vars == <<users, investments, last, now, inflight>>

(***************************************************************************)
(* Bounds of the model.                                                    *)
(***************************************************************************)
\* documents the investments collection may hold
MaxInvestments == 2
\* length of the owners array a request may submit
MaxOwners == 2
\* the instant at which the clock starts
Today == 3
\* instants the clock may advance
MaxTicks == 1
\* requests that may be in flight together
MaxInflight == 2

(***************************************************************************)
(* Program constants.                                                      *)
(***************************************************************************)
InvestmentCap == 1000000
MaxAmount == 1000000000
MaxAssetNameLen == 100
MaxDescriptionLen == 500
MaxNotesLen == 1000

AssetTypes == {"Startup", "Crypto Fund", "Farmland", "Collectible", "Other"}

(***************************************************************************)
(* The users collection as seeded: an admin, a viewer, and a viewer whose  *)
(* account is deactivated.  "m" is a well-formed id of no user.            *)
(***************************************************************************)
\* lastLogin: default null
NeverLoggedIn == 0

SeedUsers ==
  [a |-> [role |-> "admin", isActive |-> TRUE, lastLogin |-> NeverLoggedIn,
           email |-> "admin@altfolio.com", password |-> "admin123"],
   v |-> [role |-> "viewer", isActive |-> TRUE, lastLogin |-> NeverLoggedIn,
           email |-> "viewer@altfolio.com", password |-> "viewer123"],
   w |-> [role |-> "viewer", isActive |-> FALSE, lastLogin |-> NeverLoggedIn,
           email |-> "former@altfolio.com", password |-> "former123"]]

MissingUserId == "m"

SubmittedOwnerIds == DOMAIN SeedUsers \cup {MissingUserId}

(***************************************************************************)
(* Tokens.  sig = "none": no Authorization header; "bad": jwt.verify       *)
(* throws; "good": jwt.verify returns {userId}.                            *)
(***************************************************************************)
NoToken == [userId |-> "", sig |-> "none"]

Tokens ==
  {NoToken, [userId |-> "v", sig |-> "bad"]}
    \cup {[userId |-> u, sig |-> "good"] : u \in SubmittedOwnerIds}

Unauthenticated == ""

Range(s) == {s[i] : i \in DOMAIN s}

Has(body, f) == f \in DOMAIN body


(***************************************************************************)
(* middleware/auth.js                                                      *)
(***************************************************************************)
\* authenticateToken as it would be with jwt.decode in place of jwt.verify
AuthenticateToken_Decode(us, tok) ==
  IF tok.sig = "none" THEN Unauthenticated
  ELSE IF tok.userId \notin DOMAIN us THEN Unauthenticated
  ELSE IF ~us[tok.userId].isActive THEN Unauthenticated
  ELSE tok.userId

\* authenticateToken: the id of req.user, or Unauthenticated for a 401.
AuthenticateToken(us, tok) ==
  IF tok.sig = "none" THEN Unauthenticated
  ELSE IF tok.sig # "good" THEN Unauthenticated
  ELSE IF tok.userId \notin DOMAIN us THEN Unauthenticated
  ELSE IF ~us[tok.userId].isActive THEN Unauthenticated
  ELSE tok.userId

\* canAccessInvestment as it would be with findOne({_id, isActive: true})
CanAccessInvestment_ActiveOnly(invs, us, uid, id) ==
  IF id \notin DOMAIN invs \/ ~invs[id].isActive THEN "NotFound"
  ELSE IF us[uid].role = "admin" THEN "next"
  ELSE IF uid \notin Range(invs[id].owners) THEN "Forbidden"
  ELSE "next"

\* canAccessInvestment as it would be without the owners check
CanAccessInvestment_NoOwnerCheck(invs, us, uid, id) ==
  IF id \notin DOMAIN invs THEN "NotFound" ELSE "next"

\* canAccessInvestment: findById, then the role, then the owners.
CanAccessInvestment(invs, us, uid, id) ==
  IF id \notin DOMAIN invs THEN "NotFound"
  ELSE IF us[uid].role = "admin" THEN "next"
  ELSE IF uid \notin Range(invs[id].owners) THEN "Forbidden"
  ELSE "next"

\* validateInvestmentAmount as it would be with the limit of the schema
ValidateInvestmentAmount_WrongLimit(us, uid, body) ==
  ~(/\ us[uid].role # "admin"
    /\ Has(body, "investedAmount")
    /\ body.investedAmount > MaxAmount)

\* validateInvestmentAmount: TRUE when the request goes on (next()).
\* An absent investedAmount is undefined, and undefined > 1000000 is false.
ValidateInvestmentAmount(us, uid, body) ==
  ~(/\ us[uid].role # "admin"
    /\ Has(body, "investedAmount")
    /\ body.investedAmount > InvestmentCap)

(***************************************************************************)
(* routes/investments.js                                                   *)
(***************************************************************************)
\* isFloat as it would be with {min: 0} alone
IsFloatInRange_NoMax(body, f) ==
  /\ Has(body, f)
  /\ body[f] >= 0

\* isFloat({min: 0, max: 1000000000}) on a field that must be present
IsFloatInRange(body, f) ==
  /\ Has(body, f)
  /\ body[f] >= 0
  /\ body[f] <= MaxAmount

\* investmentValidation: the fields validationResult(req) reports.
InvestmentValidation(body) ==
  {f \in {"assetName"} :
      ~(Has(body, f) /\ Len(body[f]) >= 1 /\ Len(body[f]) <= MaxAssetNameLen)}
  \cup {f \in {"assetType"} : ~(Has(body, f) /\ body[f] \in AssetTypes)}
  \cup {f \in {"investedAmount", "currentValue"} : ~IsFloatInRange(body, f)}
  \cup {f \in {"description"} : Has(body, f) /\ Len(body[f]) > MaxDescriptionLen}
  \cup {f \in {"notes"} : Has(body, f) /\ Len(body[f]) > MaxNotesLen}
  \cup {f \in {"owners"} : ~(Has(body, f) /\ Len(body[f]) >= 1)}

\* User.find as it would be without isActive: true
OwnerUsers_AnyStatus(us, owners) ==
  {u \in DOMAIN us : u \in Range(owners)}

\* User.find({_id: {$in: owners}, isActive: true}): the documents found.
OwnerUsers(us, owners) ==
  {u \in DOMAIN us : u \in Range(owners) /\ us[u].isActive}

\* ownerUsers.length !== owners.length
OwnersResolved(us, owners) ==
  Cardinality(OwnerUsers(us, owners)) = Len(owners)

\* the owner policy as it would be without the role test
OwnerPolicyViolated_AnyRole(us, uid, owners) ==
  uid \notin Range(owners)

\* the owner policy as it would be if the test were left out
OwnerPolicyViolated_Never(us, uid, owners) ==
  FALSE

\* req.user.role !== 'admin' && !owners.includes(req.user._id.toString())
OwnerPolicyViolated(us, uid, owners) ==
  /\ us[uid].role # "admin"
  /\ uid \notin Range(owners)

Undefined == "undefined"

OptionalField(body, f) == IF Has(body, f) THEN body[f] ELSE Undefined

\* investmentDate: investmentDate || new Date()
DateOrNow(body) ==
  IF Has(body, "investmentDate") THEN body.investmentDate ELSE now

\* new Investment({...}) with the schema's default isActive: true.
\* lastWriter is history: who made the last successful create or update.
NewInvestment(uid, body) ==
  [assetName      |-> body.assetName,
   assetType      |-> body.assetType,
   investedAmount |-> body.investedAmount,
   currentValue   |-> body.currentValue,
   investmentDate |-> DateOrNow(body),
   description    |-> OptionalField(body, "description"),
   notes          |-> OptionalField(body, "notes"),
   owners         |-> body.owners,
   isActive       |-> TRUE,
   createdAt      |-> now,
   updatedAt      |-> now,
   lastWriter     |-> uid]

\* the update as it would be if it wrote the document anew, with the
\* schema's default isActive: true
UpdatedInvestment_Reactivates(old, uid, body) ==
  [NewInvestment(uid, body) EXCEPT
     !.description = IF Has(body, "description") THEN body.description
                     ELSE old.description,
     !.notes = IF Has(body, "notes") THEN body.notes ELSE old.notes]

\* findByIdAndUpdate(id, {assetName, ..., owners}): isActive is not written;
\* an undefined description or notes is not part of the update.
UpdatedInvestment(old, uid, body) ==
  [assetName      |-> body.assetName,
   assetType      |-> body.assetType,
   investedAmount |-> body.investedAmount,
   currentValue   |-> body.currentValue,
   investmentDate |-> DateOrNow(body),
   description    |-> IF Has(body, "description") THEN body.description
                      ELSE old.description,
   notes          |-> IF Has(body, "notes") THEN body.notes ELSE old.notes,
   owners         |-> body.owners,
   isActive       |-> old.isActive,
   createdAt      |-> old.createdAt,
   updatedAt      |-> now,
   lastWriter     |-> uid]

\* POST / as it would be with investmentValidation before
\* validateInvestmentAmount in the chain
CreateOutcome_ValidationFirst(us, uid, body) ==
  IF InvestmentValidation(body) # {} THEN "ValidationError"
  ELSE IF ~ValidateInvestmentAmount(us, uid, body) THEN "InvestmentCapExceeded"
  ELSE IF ~OwnersResolved(us, body.owners) THEN "InvalidOwners"
  ELSE IF OwnerPolicyViolated(us, uid, body.owners) THEN "ForbiddenOwnerSet"
  ELSE "Created"

\* The outcome of POST / for an authenticated user, in the order of the
\* middleware chain: validateInvestmentAmount, investmentValidation, handler.
CreateOutcome(us, uid, body) ==
  IF ~ValidateInvestmentAmount(us, uid, body) THEN "InvestmentCapExceeded"
  ELSE IF InvestmentValidation(body) # {} THEN "ValidationError"
  ELSE IF ~OwnersResolved(us, body.owners) THEN "InvalidOwners"
  ELSE IF OwnerPolicyViolated(us, uid, body.owners) THEN "ForbiddenOwnerSet"
  ELSE "Created"

\* PUT /:id as it would be if it answered 404 for a soft-deleted document
UpdateOutcome_ActiveOnly(invs, us, uid, id, body) ==
  IF CanAccessInvestment(invs, us, uid, id) # "next"
    THEN CanAccessInvestment(invs, us, uid, id)
  ELSE IF ~invs[id].isActive THEN "NotFound"
  ELSE IF ~ValidateInvestmentAmount(us, uid, body) THEN "InvestmentCapExceeded"
  ELSE IF InvestmentValidation(body) # {} THEN "ValidationError"
  ELSE IF ~OwnersResolved(us, body.owners) THEN "InvalidOwners"
  ELSE IF OwnerPolicyViolated(us, uid, body.owners) THEN "ForbiddenOwnerRemoval"
  ELSE "OK"

\* The outcome of PUT /:id for an authenticated user: canAccessInvestment,
\* validateInvestmentAmount, investmentValidation, handler.
UpdateOutcome(invs, us, uid, id, body) ==
  IF CanAccessInvestment(invs, us, uid, id) # "next"
    THEN CanAccessInvestment(invs, us, uid, id)
  ELSE IF ~ValidateInvestmentAmount(us, uid, body) THEN "InvestmentCapExceeded"
  ELSE IF InvestmentValidation(body) # {} THEN "ValidationError"
  ELSE IF ~OwnersResolved(us, body.owners) THEN "InvalidOwners"
  ELSE IF OwnerPolicyViolated(us, uid, body.owners) THEN "ForbiddenOwnerRemoval"
  ELSE "OK"

\* the query as it would be without the owners condition
ListQuery_AllActive(invs, us, uid) ==
  {i \in DOMAIN invs : invs[i].isActive}

\* GET /: the query {isActive: true}, with owners: req.user._id for a
\* user who is not an admin.
ListQuery(invs, us, uid) ==
  {i \in DOMAIN invs :
      /\ invs[i].isActive
      /\ (us[uid].role # "admin" => uid \in Range(invs[i].owners))}

\* .sort({investmentDate: -1}): every order of the matching documents with
\* non-increasing dates (the order of equal dates is the store's choice).
SortedByDateDesc(invs, ids) ==
  {s \in [1..Cardinality(ids) -> ids] :
      /\ \A i, j \in DOMAIN s : i # j => s[i] # s[j]
      /\ \A i, j \in DOMAIN s :
            i < j => invs[s[i]].investmentDate >= invs[s[j]].investmentDate}

(***************************************************************************)
(* routes/dashboard.js                                                     *)
(***************************************************************************)
\* Investment.find({isActive: true}), in the collection's order.
RECURSIVE ActiveInvestments(_, _)
ActiveInvestments(invs, i) ==
  IF i > Len(invs) THEN <<>>
  ELSE (IF invs[i].isActive THEN <<i>> ELSE <<>>)
         \o ActiveInvestments(invs, i + 1)

DashboardFind(invs) == ActiveInvestments(invs, 1)

RECURSIVE SumField(_, _, _)
SumField(invs, ids, f) ==
  IF ids = <<>> THEN 0
  ELSE invs[Head(ids)][f] + SumField(invs, Tail(ids), f)

\* the virtual absoluteGain
AbsoluteGain(inv) == inv.currentValue - inv.investedAmount

RECURSIVE SumGain(_, _)
SumGain(invs, ids) ==
  IF ids = <<>> THEN 0
  ELSE AbsoluteGain(invs[Head(ids)]) + SumGain(invs, Tail(ids))

\* A quotient times 100, kept as the fraction num / den * 100.
Percent(num, den) == [num |-> num, den |-> den]

ZeroPercent == Percent(0, 1)

\* summary: the sums over the documents found; totalRoi stays 0 unless
\* totalInvested > 0.
DashboardSummary(invs, ids) ==
  [totalInvested     |-> SumField(invs, ids, "investedAmount"),
   totalCurrentValue |-> SumField(invs, ids, "currentValue"),
   totalGain         |-> SumGain(invs, ids),
   totalRoi          |-> IF SumField(invs, ids, "investedAmount") > 0
                         THEN Percent(SumGain(invs, ids),
                                      SumField(invs, ids, "investedAmount"))
                         ELSE ZeroPercent,
   investmentCount   |-> Len(ids)]

\* allocation[type]: one entry per asset type, the keys in the order in
\* which the types are first met (Object.keys).
RECURSIVE TypesInOrder(_, _)
TypesInOrder(invs, ids) ==
  IF ids = <<>> THEN <<>>
  ELSE LET rest == TypesInOrder(invs, SubSeq(ids, 1, Len(ids) - 1))
           t    == invs[ids[Len(ids)]].assetType
       IN IF t \in Range(rest) THEN rest ELSE Append(rest, t)

OfType(invs, ids, t) == SelectSeq(ids, LAMBDA i : invs[i].assetType = t)

DashboardAllocation(invs, ids) ==
  [k \in DOMAIN TypesInOrder(invs, ids) |->
     LET t == TypesInOrder(invs, ids)[k]
     IN [type              |-> t,
         totalInvested     |-> SumField(invs, OfType(invs, ids, t), "investedAmount"),
         totalCurrentValue |-> SumField(invs, OfType(invs, ids, t), "currentValue"),
         count             |-> Len(OfType(invs, ids, t))]]

(***************************************************************************)
(* models/Investment.js: the virtuals and the aggregation statics.         *)
(***************************************************************************)
\* the virtual roi as it would be without the test for zero
Roi_Unguarded(inv) ==
  Percent(inv.currentValue - inv.investedAmount, inv.investedAmount)

\* the virtual roi: 0 when investedAmount === 0
Roi(inv) ==
  IF inv.investedAmount = 0 THEN ZeroPercent
  ELSE Percent(inv.currentValue - inv.investedAmount, inv.investedAmount)

\* toJSON with {virtuals: true}: the document as a response carries it
ToJSON(inv) ==
  [assetName      |-> inv.assetName,
   assetType      |-> inv.assetType,
   investedAmount |-> inv.investedAmount,
   currentValue   |-> inv.currentValue,
   investmentDate |-> inv.investmentDate,
   owners         |-> inv.owners,
   isActive       |-> inv.isActive,
   roi            |-> Roi(inv),
   absoluteGain   |-> AbsoluteGain(inv)]

\* userId = null for an admin
Null == "null"

\* the user id as it would be if every role were given null
AggregationUserId_NoFilter(us, uid) == Null

\* const userId = req.user.role === 'admin' ? null : req.user._id
AggregationUserId(us, uid) == IF us[uid].role = "admin" THEN Null ELSE uid

\* the $match stage as it would be without isActive: true
MatchStage_AnyStatus(invs, userId) ==
  SelectSeq([i \in DOMAIN invs |-> i],
            LAMBDA i : userId # Null => userId \in Range(invs[i].owners))

\* {$match: {isActive: true}}, with owners: userId when userId is given
MatchStage(invs, userId) ==
  SelectSeq(ActiveInvestments(invs, 1),
            LAMBDA i : userId # Null => userId \in Range(invs[i].owners))

\* getPortfolioTotals as it would be if totalRoi were always the quotient
GetPortfolioTotals_Unguarded(invs, userId) ==
  LET ids == MatchStage(invs, userId)
  IN [totalInvested     |-> SumField(invs, ids, "investedAmount"),
      totalCurrentValue |-> SumField(invs, ids, "currentValue"),
      totalGain         |-> SumGain(invs, ids),
      totalRoi          |-> Percent(SumGain(invs, ids),
                                    SumField(invs, ids, "investedAmount")),
      investmentCount   |-> Len(ids)]

\* getPortfolioTotals: the $group over the matched documents; all zero
\* when nothing matched; totalRoi is 0 unless totalInvested > 0.
GetPortfolioTotals(invs, userId) ==
  LET ids == MatchStage(invs, userId)
  IN IF Len(ids) = 0
       THEN [totalInvested |-> 0, totalCurrentValue |-> 0, totalGain |-> 0,
             totalRoi |-> ZeroPercent, investmentCount |-> 0]
       ELSE [totalInvested     |-> SumField(invs, ids, "investedAmount"),
             totalCurrentValue |-> SumField(invs, ids, "currentValue"),
             totalGain         |-> SumGain(invs, ids),
             totalRoi          |-> IF SumField(invs, ids, "investedAmount") > 0
                                   THEN Percent(SumGain(invs, ids),
                                                SumField(invs, ids, "investedAmount"))
                                   ELSE ZeroPercent,
             investmentCount   |-> Len(ids)]

\* the group as it would be with $first in place of $sum
GroupOfType_First(invs, ids, t) ==
  [type              |-> t,
   totalInvested     |-> invs[Head(OfType(invs, ids, t))].investedAmount,
   totalCurrentValue |-> invs[Head(OfType(invs, ids, t))].currentValue,
   count             |-> 1]

\* {$group: {_id: '$assetType', ...}}: the entry of one type
GroupOfType(invs, ids, t) ==
  [type              |-> t,
   totalInvested     |-> SumField(invs, OfType(invs, ids, t), "investedAmount"),
   totalCurrentValue |-> SumField(invs, OfType(invs, ids, t), "currentValue"),
   count             |-> Len(OfType(invs, ids, t))]

\* {$sort: {totalCurrentValue: -1}}: every order of the groups with
\* non-increasing totalCurrentValue (the order of equal totals is the
\* store's choice).
SortByCurrentValueDesc(groups) ==
  {s \in [1..Cardinality(groups) -> groups] :
      /\ \A i, j \in DOMAIN s : i # j => s[i] # s[j]
      /\ \A i, j \in DOMAIN s :
            i < j => s[i].totalCurrentValue >= s[j].totalCurrentValue}

\* getAllocationByType: $match, $group by assetType, $sort
GetAllocationByType(invs, userId) ==
  LET ids == MatchStage(invs, userId)
  IN SortByCurrentValueDesc(
       {GroupOfType(invs, ids, invs[ids[k]].assetType) : k \in DOMAIN ids})

\* requireAdmin as it would be if it let every role through
RequireAdmin_AnyRole(us, uid) == TRUE

\* requireAdmin
RequireAdmin(us, uid) == us[uid].role = "admin"

(***************************************************************************)
(* routes/dashboard.js: POST /simulate; routes/investments.js: GET /export *)
(***************************************************************************)
\* investmentId === investment._id: the id of the body is a string, the
\* _id of the document an ObjectId, and === of the two is false.
StrictEquals(bodyId, docId) == FALSE

\* find({_id: investmentId, isActive: true}) when the body has an
\* investmentId, find({isActive: true}) when it has none
SimulateFind(invs, body) ==
  IF Has(body, "investmentId")
    THEN SelectSeq(ActiveInvestments(invs, 1), LAMBDA i : i = body.investmentId)
    ELSE ActiveInvestments(invs, 1)

\* simulatedValue: the newValue of the body, or currentValue changed by a
\* random percentage
SimulatedValue(body, id) ==
  IF /\ Has(body, "newValue")
     /\ body.newValue # 0
     /\ Has(body, "investmentId")
     /\ StrictEquals(body.investmentId, id)
    THEN [kind |-> "newValue", value |-> body.newValue]
    ELSE [kind |-> "random", value |-> 0]

\* ((simulatedValue - base) / base) * 100, with no test of base: known
\* when simulatedValue is the newValue of the body, random otherwise
ChangeFrom(simulated, base) ==
  IF simulated.kind = "newValue"
    THEN [kind |-> "newValue", percent |-> Percent(simulated.value - base, base)]
    ELSE [kind |-> "random", percent |-> ZeroPercent]

\* simulationResults: one entry per document found
SimulationResults(invs, body) ==
  [k \in DOMAIN SimulateFind(invs, body) |->
     [investmentId   |-> SimulateFind(invs, body)[k],
      originalValue  |-> invs[SimulateFind(invs, body)[k]].currentValue,
      simulatedValue |-> SimulatedValue(body, SimulateFind(invs, body)[k]),
      changePercent  |->
        ChangeFrom(SimulatedValue(body, SimulateFind(invs, body)[k]),
                   invs[SimulateFind(invs, body)[k]].currentValue),
      newRoi         |->
        ChangeFrom(SimulatedValue(body, SimulateFind(invs, body)[k]),
                   invs[SimulateFind(invs, body)[k]].investedAmount)]]

\* .sort({createdAt: -1}): the latest created first
RECURSIVE NewestFirst(_)
NewestFirst(ids) ==
  IF ids = <<>> THEN <<>>
  ELSE Append(NewestFirst(Tail(ids)), Head(ids))

\* Investment.find({isActive: true}).sort({createdAt: -1})
ExportFind(invs) == NewestFirst(ActiveInvestments(invs, 1))

(***************************************************************************)
(* routes/auth.js: POST /login                                             *)
(***************************************************************************)
MinPasswordLen == 6

\* the strings isEmail() accepts, among those a request may carry
WellFormedEmails ==
  {"admin@altfolio.com", "viewer@altfolio.com", "former@altfolio.com",
   "Viewer@Altfolio.com", "nobody@altfolio.com"}

\* email.toLowerCase()
ToLowerCase(e) == IF e = "Viewer@Altfolio.com" THEN "viewer@altfolio.com" ELSE e

\* body('email').isEmail(), body('password').isLength({min: 6})
LoginValidation(cred) ==
  {f \in {"email"} : cred.email \notin WellFormedEmails}
    \cup {f \in {"password"} : Len(cred.password) < MinPasswordLen}

\* User.findOne({email: email.toLowerCase()}): the ids of the users found
FindByEmail(us, e) == {u \in DOMAIN us : us[u].email = ToLowerCase(e)}

\* user.comparePassword(password): bcrypt.compare with the stored hash
ComparePassword(user, password) == user.password = password

\* POST /login as it would be without the express-validator chain
LoginOutcome_NoValidation(us, cred) ==
  IF FindByEmail(us, cred.email) = {} THEN "InvalidCredentials"
  ELSE LET u == CHOOSE x \in FindByEmail(us, cred.email) : TRUE
       IN IF ~us[u].isActive THEN "AccountInactive"
          ELSE IF ~ComparePassword(us[u], cred.password) THEN "InvalidCredentials"
          ELSE "OK"

\* POST /login as it would be with the password compared before isActive
LoginOutcome_PasswordFirst(us, cred) ==
  IF LoginValidation(cred) # {} THEN "ValidationError"
  ELSE IF FindByEmail(us, cred.email) = {} THEN "InvalidCredentials"
  ELSE LET u == CHOOSE x \in FindByEmail(us, cred.email) : TRUE
       IN IF ~ComparePassword(us[u], cred.password) THEN "InvalidCredentials"
          ELSE IF ~us[u].isActive THEN "AccountInactive"
          ELSE "OK"

\* The outcome of POST /login, in the order of the handler.
LoginOutcome(us, cred) ==
  IF LoginValidation(cred) # {} THEN "ValidationError"
  ELSE IF FindByEmail(us, cred.email) = {} THEN "InvalidCredentials"
  ELSE LET u == CHOOSE x \in FindByEmail(us, cred.email) : TRUE
       IN IF ~us[u].isActive THEN "AccountInactive"
          ELSE IF ~ComparePassword(us[u], cred.password) THEN "InvalidCredentials"
          ELSE "OK"

\* generateToken(user._id): jwt.sign({userId}, JWT_SECRET)
GenerateToken(u) == [userId |-> u, sig |-> "good"]

(***************************************************************************)
(* Requests and responses.                                                 *)
(***************************************************************************)
NoSummary ==
  [totalInvested |-> 0, totalCurrentValue |-> 0, totalGain |-> 0,
   totalRoi |-> ZeroPercent, investmentCount |-> 0]

\* the body of a request that has none
NoBody == [f \in {} |-> 0]

\* An exchange: the request (op, token, id of the route, body) and the
\* response to it: the outcome, the ids of the investments in the response
\* body, and for the dashboard the summary and the allocation.
Exchange(op, tok, id, body, status, found, summary, allocation) ==
  [op |-> op, token |-> tok, id |-> id, body |-> body, status |-> status,
   found |-> found, summary |-> summary, allocation |-> allocation]

Plain(op, tok, id, body, status, found) ==
  Exchange(op, tok, id, body, status, found, NoSummary, <<>>)

\* no exchange in progress
Idle == Plain("none", NoToken, 0, NoBody, "none", <<>>)

\* the exchange of POST /simulate: its response has simulationResults
SimulateExchange(tok, body, status, results) ==
  Plain("simulate", tok, 0, body, status, <<>>) @@ [results |-> results]

\* the exchange of a create or update that was refused: the response of
\* 'Validation failed' has details, errors.array() of validationResult
Refusal(op, tok, id, body, status) ==
  IF status = "ValidationError"
    THEN Plain(op, tok, id, body, status, <<>>)
           @@ [details |-> InvestmentValidation(body)]
    ELSE Plain(op, tok, id, body, status, <<>>)

\* the exchange of POST /login: its response has the token issued, if any
LoginExchange(cred, status, token) ==
  Plain("login", NoToken, 0, cred, status, <<>>) @@ [issued |-> token]

HttpCode(status) ==
  CASE status = "OK" -> 200
    [] status = "Created" -> 201
    [] status \in {"ValidationError", "InvalidOwners", "InvestmentCapExceeded"} -> 400
    [] status = "Unauthorized" -> 401
    [] status \in {"Forbidden", "ForbiddenOwnerSet", "ForbiddenOwnerRemoval"} -> 403
    [] status = "NotFound" -> 404
    [] OTHER -> 0

(***************************************************************************)
(* The requests the model sends.  A body is the base body with one field   *)
(* changed, left out, or (owners) replaced by any list of submitted ids.   *)
(***************************************************************************)
BaseBody ==
  [assetName      |-> "Fund",
   assetType      |-> "Startup",
   investedAmount |-> InvestmentCap,
   currentValue   |-> 0,
   investmentDate |-> 1,
   owners         |-> <<"v">>]

OwnerLists == UNION {[1..n -> SubmittedOwnerIds] : n \in 0..MaxOwners}

InvestedInputs == {-1, 0, InvestmentCap + 1, MaxAmount, MaxAmount + 1}

CurrentInputs == {-1, MaxAmount, MaxAmount + 1}

\* a body with some of the fields only
PartialBody == [assetName |-> "Renamed", currentValue |-> InvestmentCap]

Without(body, f) == [g \in DOMAIN body \ {f} |-> body[g]]

Bodies ==
  {[BaseBody EXCEPT !.owners = o] : o \in OwnerLists}
    \cup {[BaseBody EXCEPT !.investedAmount = x] : x \in InvestedInputs}
    \cup {[BaseBody EXCEPT !.currentValue = x] : x \in CurrentInputs}
    \cup {[BaseBody EXCEPT !.assetType = t] : t \in {"Farmland", "Stocks"}}
    \cup {[BaseBody EXCEPT !.assetName = ""]}
    \cup {Without(BaseBody, "investmentDate")}
    \cup {PartialBody}

\* authenticateToken answers before anything reads the body: one body
\* stands for all in a request it stops
BodiesFor(tok) ==
  IF AuthenticateToken(users, tok) = Unauthenticated THEN {BaseBody} ELSE Bodies

\* the bodies of POST /simulate
SimulateBodies ==
  {NoBody}
    \cup {[investmentId |-> i] : i \in 1..(MaxInvestments + 1)}
    \cup {[investmentId |-> i, newValue |-> InvestmentCap] :
            i \in 1..(MaxInvestments + 1)}

SimulateBodiesFor(tok) ==
  IF AuthenticateToken(users, tok) = Unauthenticated THEN {NoBody}
  ELSE SimulateBodies

\* the bodies of POST /login
Credentials ==
  {[email |-> e, password |-> p] :
     e \in {"admin@altfolio.com", "viewer@altfolio.com", "former@altfolio.com",
            "Viewer@Altfolio.com", "nobody@altfolio.com", "viewer"},
     p \in {"viewer123", "former123", "wrong123", "short"}}

RouteIds == 1..(MaxInvestments + 1)

Init ==
  /\ users = SeedUsers
  /\ investments = <<>>
  /\ last = Idle
  /\ now = Today
  /\ inflight = <<>>

(***************************************************************************)
(* The handlers.  The server takes a request when no exchange is in        *)
(* progress and runs its middleware chain and handler to the response.     *)
(***************************************************************************)
\* GET /api/investments
ListInvestments(tok) ==
  LET uid == AuthenticateToken(users, tok)
  IN /\ last = Idle
     /\ IF uid = Unauthenticated
          THEN last' = Plain("list", tok, 0, NoBody, "Unauthorized", <<>>)
          ELSE \E s \in SortedByDateDesc(investments,
                                         ListQuery(investments, users, uid)) :
                 last' = Plain("list", tok, 0, NoBody, "OK", s)
     /\ UNCHANGED <<users, investments, now, inflight>>

\* GET /api/investments/:id
GetInvestment(tok, id) ==
  LET uid == AuthenticateToken(users, tok)
      acc == CanAccessInvestment(investments, users, uid, id)
  IN /\ last = Idle
     /\ IF uid = Unauthenticated
          THEN last' = Plain("get", tok, id, NoBody, "Unauthorized", <<>>)
          ELSE IF acc # "next"
            THEN last' = Plain("get", tok, id, NoBody, acc, <<>>)
            ELSE last' = Plain("get", tok, id, NoBody, "OK", <<id>>)
     /\ UNCHANGED <<users, investments, now, inflight>>

\* POST /api/investments
CreateInvestment(tok, body) ==
  LET uid == AuthenticateToken(users, tok)
      out == CreateOutcome(users, uid, body)
  IN /\ last = Idle
     /\ IF uid = Unauthenticated
          THEN /\ last' = Plain("create", tok, 0, body, "Unauthorized", <<>>)
               /\ UNCHANGED <<users, investments, now, inflight>>
          ELSE IF out # "Created"
            THEN /\ last' = Refusal("create", tok, 0, body, out)
                 /\ UNCHANGED <<users, investments, now, inflight>>
            ELSE /\ Len(investments) < MaxInvestments
                 /\ investments' = Append(investments, NewInvestment(uid, body))
                 /\ last' = Plain("create", tok, 0, body, "Created",
                                  <<Len(investments) + 1>>)
                 /\ UNCHANGED <<users, now, inflight>>

\* PUT /api/investments/:id
UpdateInvestment(tok, id, body) ==
  LET uid == AuthenticateToken(users, tok)
      out == UpdateOutcome(investments, users, uid, id, body)
  IN /\ last = Idle
     /\ IF uid = Unauthenticated
          THEN /\ last' = Plain("update", tok, id, body, "Unauthorized", <<>>)
               /\ UNCHANGED <<users, investments, now, inflight>>
          ELSE IF out # "OK"
            THEN /\ last' = Refusal("update", tok, id, body, out)
                 /\ UNCHANGED <<users, investments, now, inflight>>
            ELSE /\ investments' =
                      [investments EXCEPT
                         ![id] = UpdatedInvestment(investments[id], uid, body)]
                 /\ last' = Plain("update", tok, id, body, "OK", <<id>>)
                 /\ UNCHANGED <<users, now, inflight>>

\* DELETE /:id as it would be with the write before the answer of
\* canAccessInvestment is looked at
DeleteInvestment_WriteFirst(tok, id) ==
  LET uid == AuthenticateToken(users, tok)
      acc == CanAccessInvestment(investments, users, uid, id)
  IN /\ last = Idle
     /\ uid # Unauthenticated
     /\ id \in DOMAIN investments
     /\ investments' = [investments EXCEPT ![id].isActive = FALSE,
                                           ![id].updatedAt = now]
     /\ last' = Plain("delete", tok, id, NoBody,
                      IF acc = "next" THEN "OK" ELSE acc, <<>>)
     /\ UNCHANGED <<users, now, inflight>>

\* DELETE /api/investments/:id
DeleteInvestment(tok, id) ==
  LET uid == AuthenticateToken(users, tok)
      acc == CanAccessInvestment(investments, users, uid, id)
  IN /\ last = Idle
     /\ IF uid = Unauthenticated
          THEN /\ last' = Plain("delete", tok, id, NoBody, "Unauthorized", <<>>)
               /\ UNCHANGED <<users, investments, now, inflight>>
          ELSE IF acc # "next"
            THEN /\ last' = Plain("delete", tok, id, NoBody, acc, <<>>)
                 /\ UNCHANGED <<users, investments, now, inflight>>
            ELSE /\ investments' = [investments EXCEPT ![id].isActive = FALSE,
                                                     ![id].updatedAt = now]
                 /\ last' = Plain("delete", tok, id, NoBody, "OK", <<>>)
                 /\ UNCHANGED <<users, now, inflight>>

\* GET /api/dashboard
Dashboard(tok) ==
  LET uid   == AuthenticateToken(users, tok)
      found == DashboardFind(investments)
  IN /\ last = Idle
     /\ IF uid = Unauthenticated
          THEN last' = Plain("dashboard", tok, 0, NoBody, "Unauthorized", <<>>)
          ELSE last' = Exchange("dashboard", tok, 0, NoBody, "OK", found,
                                DashboardSummary(investments, found),
                                DashboardAllocation(investments, found))
     /\ UNCHANGED <<users, investments, now, inflight>>

\* GET /api/investments/portfolio/summary
PortfolioSummary(tok) ==
  LET uid == AuthenticateToken(users, tok)
  IN /\ last = Idle
     /\ IF uid = Unauthenticated
          THEN last' = Plain("summary", tok, 0, NoBody, "Unauthorized", <<>>)
          ELSE \E allocation \in GetAllocationByType(investments,
                                   AggregationUserId(users, uid)) :
                 last' = Exchange("summary", tok, 0, NoBody, "OK", <<>>,
                                  GetPortfolioTotals(investments,
                                      AggregationUserId(users, uid)),
                                  allocation)
     /\ UNCHANGED <<users, investments, now, inflight>>

\* GET /api/investments/export
Export(tok) ==
  LET uid == AuthenticateToken(users, tok)
  IN /\ last = Idle
     /\ IF uid = Unauthenticated
          THEN last' = Plain("export", tok, 0, NoBody, "Unauthorized", <<>>)
          ELSE last' = Plain("export", tok, 0, NoBody, "OK",
                             ExportFind(investments))
     /\ UNCHANGED <<users, investments, now, inflight>>

\* POST /api/dashboard/simulate
Simulate(tok, body) ==
  LET uid == AuthenticateToken(users, tok)
  IN /\ last = Idle
     /\ IF uid = Unauthenticated
          THEN last' = SimulateExchange(tok, body, "Unauthorized", <<>>)
          ELSE IF ~RequireAdmin(users, uid)
            THEN last' = SimulateExchange(tok, body, "Forbidden", <<>>)
            ELSE last' = SimulateExchange(tok, body, "OK",
                                          SimulationResults(investments, body))
     /\ UNCHANGED <<users, investments, now, inflight>>

\* POST /api/auth/login
Login(cred) ==
  LET out == LoginOutcome(users, cred)
      u   == CHOOSE x \in FindByEmail(users, cred.email) : TRUE
  IN /\ last = Idle
     /\ IF out # "OK"
          THEN /\ last' = LoginExchange(cred, out, NoToken)
               /\ UNCHANGED users
          ELSE /\ users' = [users EXCEPT ![u].lastLogin = now]
               /\ last' = LoginExchange(cred, "OK", GenerateToken(u))
     /\ UNCHANGED <<investments, now, inflight>>

\* The users collection is written from outside the routes: an account is
\* deactivated.
DeactivateUser(u) ==
  /\ last = Idle
  /\ users[u].isActive
  /\ users' = [users EXCEPT ![u].isActive = FALSE]
  /\ UNCHANGED <<investments, last, now, inflight>>

\* Time passes.
Tick ==
  /\ last = Idle
  /\ now < Today + MaxTicks
  /\ now' = now + 1
  /\ UNCHANGED <<users, investments, last, inflight>>

(***************************************************************************)
(* The handlers of PUT /:id and DELETE /:id as they run among other         *)
(* requests.  A handler gives way at each await; the users do not change    *)
(* here and the validations read the request only, so the steps that        *)
(* matter are two: the middleware chain and the checks of the handler,      *)
(* which read the investment (canAccessInvestment's findById), and the      *)
(* write (findByIdAndUpdate).  inflight holds the requests taken, in the    *)
(* order of their taking: pc = "write" before the write, "done" after the   *)
(* response; loaded is req.investment; wrote is history, the rank of the    *)
(* write among the writes.                                                  *)
(***************************************************************************)
Request(op, tok, id, body, out, loaded) ==
  [op |-> op, token |-> tok, id |-> id, body |-> body,
   pc |-> IF out = "OK" THEN "write" ELSE "done",
   status |-> IF out = "OK" THEN "pending" ELSE out,
   loaded |-> loaded, wrote |-> 0]

\* req.investment, set by canAccessInvestment when it calls next()
Loaded(invs, out, id) == IF out = "OK" THEN <<invs[id]>> ELSE <<>>

Writes == Cardinality({k \in DOMAIN inflight : inflight[k].wrote > 0})

\* the handler of PUT /:id as it would be if it wrote req.investment back
DocumentToUpdate_Loaded(invs, req) == req.loaded[1]

\* findByIdAndUpdate(req.params.id, ...): the document as it is stored at
\* the write
DocumentToUpdate(invs, req) == invs[req.id]

\* PUT /:id up to the write
UpdateChecks(tok, id, body) ==
  LET uid == AuthenticateToken(users, tok)
      out == IF uid = Unauthenticated THEN "Unauthorized"
             ELSE UpdateOutcome(investments, users, uid, id, body)
  IN /\ Len(inflight) < MaxInflight
     /\ inflight' = Append(inflight,
                      Request("update", tok, id, body, out,
                              Loaded(investments, out, id)))
     /\ UNCHANGED <<users, investments, last, now>>

\* DELETE /:id up to the write
DeleteChecks(tok, id) ==
  LET uid == AuthenticateToken(users, tok)
      acc == CanAccessInvestment(investments, users, uid, id)
      out == IF uid = Unauthenticated THEN "Unauthorized"
             ELSE IF acc # "next" THEN acc ELSE "OK"
  IN /\ Len(inflight) < MaxInflight
     /\ inflight' = Append(inflight,
                      Request("delete", tok, id, NoBody, out,
                              Loaded(investments, out, id)))
     /\ UNCHANGED <<users, investments, last, now>>

\* PUT /:id: the write and the response
UpdateWrite(k) ==
  LET req == inflight[k]
  IN /\ k \in DOMAIN inflight
     /\ req.op = "update"
     /\ req.pc = "write"
     /\ investments' =
          [investments EXCEPT
             ![req.id] = UpdatedInvestment(DocumentToUpdate(investments, req),
                                           req.token.userId, req.body)]
     /\ inflight' = [inflight EXCEPT ![k].pc = "done", ![k].status = "OK",
                                     ![k].wrote = Writes + 1]
     /\ UNCHANGED <<users, last, now>>

\* DELETE /:id: the write and the response
DeleteWrite(k) ==
  LET req == inflight[k]
  IN /\ k \in DOMAIN inflight
     /\ req.op = "delete"
     /\ req.pc = "write"
     /\ investments' = [investments EXCEPT ![req.id].isActive = FALSE,
                                           ![req.id].updatedAt = now]
     /\ inflight' = [inflight EXCEPT ![k].pc = "done", ![k].status = "OK",
                                     ![k].wrote = Writes + 1]
     /\ UNCHANGED <<users, last, now>>

\* The client takes the response (await api.get/post/put/delete): the
\* exchange is over.
ReceiveResponse ==
  /\ last # Idle
  /\ last' = Idle
  /\ UNCHANGED <<users, investments, now, inflight>>

Next ==
  \/ \E tok \in Tokens : ListInvestments(tok)
  \/ \E tok \in Tokens, id \in RouteIds : GetInvestment(tok, id)
  \/ \E tok \in Tokens : \E body \in BodiesFor(tok) : CreateInvestment(tok, body)
  \/ \E tok \in Tokens, id \in RouteIds :
       \E body \in BodiesFor(tok) : UpdateInvestment(tok, id, body)
  \/ \E tok \in Tokens, id \in RouteIds : DeleteInvestment(tok, id)
  \/ \E tok \in Tokens : Dashboard(tok)
  \/ \E tok \in Tokens : PortfolioSummary(tok)
  \/ \E tok \in Tokens : Export(tok)
  \/ \E tok \in Tokens : \E body \in SimulateBodiesFor(tok) : Simulate(tok, body)
  \/ ReceiveResponse

Spec == Init /\ [][Next]_vars

(***************************************************************************)
(* The accounts and the clock: logins, deactivations and the passing of    *)
(* time, with the investment routes called by the two seeded accounts.     *)
(***************************************************************************)
AccountTokens == {GenerateToken(u) : u \in {"a", "v"}}

CreateBodies == {BaseBody}

UpdateBodies == {[BaseBody EXCEPT !.assetType = "Farmland"]}

NextAccounts ==
  \/ \E cred \in Credentials : Login(cred)
  \/ \E u \in DOMAIN SeedUsers : DeactivateUser(u)
  \/ Tick
  \/ \E tok \in AccountTokens : ListInvestments(tok)
  \/ \E tok \in AccountTokens, id \in RouteIds : GetInvestment(tok, id)
  \/ \E tok \in AccountTokens : \E body \in CreateBodies : CreateInvestment(tok, body)
  \/ \E tok \in AccountTokens, id \in RouteIds :
       \E body \in UpdateBodies : UpdateInvestment(tok, id, body)
  \/ \E tok \in AccountTokens, id \in RouteIds : DeleteInvestment(tok, id)
  \/ \E tok \in AccountTokens : Export(tok)
  \/ ReceiveResponse

SpecAccounts == Init /\ [][NextAccounts]_vars

(***************************************************************************)
(* Requests in flight together: investments are created, then updates and  *)
(* soft deletes are taken and written in any order.                        *)
(***************************************************************************)
ConcurrentBodies ==
  {BaseBody @@ [description |-> "Seed round", notes |-> "Lead"],
   [BaseBody EXCEPT !.assetType = "Farmland"],
   [BaseBody EXCEPT !.owners = <<"a">>]}

NextConcurrent ==
  \/ \E tok \in AccountTokens : \E body \in CreateBodies : CreateInvestment(tok, body)
  \/ ReceiveResponse
  \/ \E tok \in AccountTokens, id \in RouteIds :
       \E body \in ConcurrentBodies : UpdateChecks(tok, id, body)
  \/ \E tok \in AccountTokens, id \in RouteIds : DeleteChecks(tok, id)
  \/ \E k \in 1..MaxInflight : UpdateWrite(k)
  \/ \E k \in 1..MaxInflight : DeleteWrite(k)

SpecConcurrent == Init /\ [][NextConcurrent]_vars

(***************************************************************************)
(* Vocabulary of the properties.                                           *)
(***************************************************************************)
\* the request of the exchange carries a token of an active user
Authenticated(x) ==
  /\ x.token.sig = "good"
  /\ x.token.userId \in DOMAIN users
  /\ users[x.token.userId].isActive

ByAdmin(x) == Authenticated(x) /\ users[x.token.userId].role = "admin"

ByViewer(x) == Authenticated(x) /\ users[x.token.userId].role = "viewer"

IsOwner(uid, inv) == \E k \in DOMAIN inv.owners : inv.owners[k] = uid

\* the investments a user may see
Visible(uid) ==
  {i \in DOMAIN investments :
      /\ investments[i].isActive
      /\ (users[uid].role = "admin" \/ IsOwner(uid, investments[i]))}

ActiveUser(u) == u \in DOMAIN users /\ users[u].isActive

NoRepeat(s) == \A i, j \in DOMAIN s : i # j => s[i] # s[j]

AmountInBounds(x) == 0 <= x /\ x <= MaxAmount

\* the field bounds of the data model, owners aside
FieldsInBounds(body) ==
  /\ {"assetName", "assetType", "investedAmount", "currentValue"} \subseteq DOMAIN body
  /\ Len(body.assetName) \in 1..100
  /\ body.assetType \in {"Startup", "Crypto Fund", "Farmland", "Collectible", "Other"}
  /\ AmountInBounds(body.investedAmount)
  /\ AmountInBounds(body.currentValue)

OverCap(body) == Has(body, "investedAmount") /\ body.investedAmount > InvestmentCap

Rejected(x) == x.status \notin {"OK", "Created"}

VisibleInOrder(uid) ==
  SelectSeq(DashboardFind(investments), LAMBDA i : i \in Visible(uid))

C2_DashboardOverVisibleSet ==
  (last.op = "dashboard" /\ ByViewer(last)) =>
     /\ last.status = "OK"
     /\ last.found = VisibleInOrder(last.token.userId)
     /\ last.summary =
          DashboardSummary(investments, VisibleInOrder(last.token.userId))
     /\ last.allocation =
          DashboardAllocation(investments, VisibleInOrder(last.token.userId))

C4_ModifyNeedsOwnership ==
  [][(/\ last'.op \in {"update", "delete"}
      /\ Authenticated(last')
      /\ last'.id \in DOMAIN investments)
       =>
        IF ByViewer(last') /\ ~IsOwner(last'.token.userId, investments[last'.id])
          THEN /\ last'.status = "Forbidden"
               /\ HttpCode(last'.status) = 403
               /\ investments' = investments
          ELSE last'.status \notin {"Forbidden", "NotFound", "Unauthorized"}]_vars

\* a viewer's update of an active investment of somebody else was refused
C4_Witness ==
  /\ last.op = "update"
  /\ ByViewer(last)
  /\ last.id \in DOMAIN investments
  /\ investments[last.id].isActive
  /\ ~IsOwner(last.token.userId, investments[last.id])
  /\ last.status = "Forbidden"

(***************************************************************************)
(* C5: a create by a viewer whose proposed owners, all active users, do    *)
(* not include the viewer fails with ForbiddenOwnerSet and persists        *)
(* nothing; a create by an admin with any non-empty set of active users as *)
(* owners succeeds, the admin among them or not.  (The fields are          *)
(* otherwise valid, a viewer's amount within the cap, and an owner set     *)
(* names each owner once.)                                                 *)
(***************************************************************************)
OwnerSetOfActiveUsers(owners) ==
  /\ owners # <<>>
  /\ NoRepeat(owners)
  /\ \A u \in Range(owners) : ActiveUser(u)

C5_CreateOwnerSet ==
  [][(/\ last'.op = "create"
      /\ Authenticated(last')
      /\ FieldsInBounds(last'.body)
      /\ Has(last'.body, "owners")
      /\ OwnerSetOfActiveUsers(last'.body.owners))
       =>
        /\ (/\ ByViewer(last')
            /\ ~OverCap(last'.body)
            /\ last'.token.userId \notin Range(last'.body.owners))
             => /\ last'.status = "ForbiddenOwnerSet"
                /\ investments' = investments
        /\ ByAdmin(last')
             => /\ last'.status = "Created"
                /\ Len(investments') = Len(investments) + 1
                /\ investments'[Len(investments')].owners = last'.body.owners
                /\ investments'[Len(investments')].isActive]_vars

\* a viewer's create that named only the admin as owner was refused
C5_Witness ==
  /\ last.op = "create"
  /\ ByViewer(last)
  /\ Has(last.body, "owners")
  /\ last.body.owners = <<"a">>
  /\ last.status = "ForbiddenOwnerSet"

(***************************************************************************)
(* C6: after any sequence of operations, every investment whose last       *)
(* successful write (create or update) was made by a viewer has that       *)
(* viewer among its owners; an update by a viewer whose proposed owners    *)
(* exclude the viewer fails, with ForbiddenOwnerRemoval when it comes to   *)
(* the owner policy, and leaves the owners as they were.                   *)
(***************************************************************************)
WriterIsOwner(inv) ==
  users[inv.lastWriter].role = "viewer" => IsOwner(inv.lastWriter, inv)

C6_ViewerStaysOwner ==
  [][/\ \A i \in DOMAIN investments' : WriterIsOwner(investments'[i])
     /\ (/\ last'.op = "update"
         /\ ByViewer(last')
         /\ Has(last'.body, "owners")
         /\ last'.token.userId \notin Range(last'.body.owners))
          => /\ Rejected(last')
             /\ investments' = investments
             /\ (/\ last'.id \in DOMAIN investments
                 /\ IsOwner(last'.token.userId, investments[last'.id])
                 /\ ~OverCap(last'.body)
                 /\ FieldsInBounds(last'.body)
                 /\ OwnerSetOfActiveUsers(last'.body.owners))
                  => last'.status = "ForbiddenOwnerRemoval"]_vars

\* a viewer who owns an investment tried to hand it to the admin alone
C6_Witness ==
  /\ last.op = "update"
  /\ ByViewer(last)
  /\ Has(last.body, "owners")
  /\ last.body.owners = <<"a">>
  /\ last.status = "ForbiddenOwnerRemoval"
  /\ IsOwner(last.token.userId, investments[last.id])
  /\ investments[last.id].lastWriter = last.token.userId

(***************************************************************************)
(* C7: the role-based cap.  A create or update by a viewer with            *)
(* investedAmount > 1,000,000 fails (InvestmentCapExceeded once the        *)
(* request is authorized) and changes nothing; a viewer's amount of        *)
(* exactly 1,000,000 is not refused by the cap; an admin's over-cap amount *)
(* up to 1e9 succeeds; so no investment last written by a viewer holds     *)
(* more than 1,000,000.                                                    *)
(***************************************************************************)
WriterWithinCap(inv) ==
  users[inv.lastWriter].role = "viewer" => inv.investedAmount <= InvestmentCap

\* the request is not stopped before the cap is looked at
Authorized(x) ==
  x.op = "update" =>
     /\ x.id \in DOMAIN investments
     /\ (ByAdmin(x) \/ IsOwner(x.token.userId, investments[x.id]))

C7_InvestmentCap ==
  [][/\ \A i \in DOMAIN investments' : WriterWithinCap(investments'[i])
     /\ (last'.op \in {"create", "update"} /\ ByViewer(last'))
          => /\ OverCap(last'.body)
                  => /\ Rejected(last')
                     /\ investments' = investments
                     /\ Authorized(last') => last'.status = "InvestmentCapExceeded"
             /\ (Has(last'.body, "investedAmount")
                   /\ last'.body.investedAmount = InvestmentCap)
                  => last'.status # "InvestmentCapExceeded"
     /\ (/\ last'.op \in {"create", "update"}
         /\ ByAdmin(last')
         /\ Authorized(last')
         /\ OverCap(last'.body)
         /\ FieldsInBounds(last'.body)
         /\ Has(last'.body, "owners")
         /\ OwnerSetOfActiveUsers(last'.body.owners))
          => /\ ~Rejected(last')
             /\ investments'[Head(last'.found)].investedAmount =
                  last'.body.investedAmount]_vars

\* a viewer was refused by the cap on an investment of theirs, while the
\* store holds an investment above the cap, written by the admin
C7_Witness ==
  /\ last.op = "update"
  /\ ByViewer(last)
  /\ last.status = "InvestmentCapExceeded"
  /\ last.body.investedAmount = (InvestmentCap + 1)
  /\ \E i \in DOMAIN investments : investments[i].investedAmount = MaxAmount

(***************************************************************************)
(* C8: the universal bound.  Every stored investment has investedAmount    *)
(* and currentValue in [0, 1,000,000,000], each on its own; a create or    *)
(* update by any role with either amount outside that range fails and      *)
(* stores nothing.                                                         *)
(***************************************************************************)
AmountOutOfBounds(body, f) == Has(body, f) /\ ~AmountInBounds(body[f])

C8_UniversalBound ==
  [][/\ \A i \in DOMAIN investments' :
          /\ AmountInBounds(investments'[i].investedAmount)
          /\ AmountInBounds(investments'[i].currentValue)
     /\ (/\ last'.op \in {"create", "update"}
         /\ \/ AmountOutOfBounds(last'.body, "investedAmount")
            \/ AmountOutOfBounds(last'.body, "currentValue"))
          => /\ Rejected(last')
             /\ investments' = investments]_vars

\* the admin's create above the bound was refused; the store holds an
\* investment worth more than was invested and one worth less
C8_Witness ==
  /\ last.op = "create"
  /\ ByAdmin(last)
  /\ Has(last.body, "investedAmount")
  /\ last.body.investedAmount = MaxAmount + 1
  /\ last.status = "ValidationError"
  /\ \E i, j \in DOMAIN investments :
        /\ investments[i].currentValue > investments[i].investedAmount
        /\ investments[j].currentValue < investments[j].investedAmount

C10_InvalidOwnersIff ==
  (/\ last.op \in {"create", "update"}
   /\ Authenticated(last)
   /\ Authorized(last)
   /\ FieldsInBounds(last.body)
   /\ ByViewer(last) => ~OverCap(last.body)
   /\ Has(last.body, "owners")
   /\ last.body.owners # <<>>)
    => (last.status = "InvalidOwners"
          <=> \E u \in Range(last.body.owners) : ~ActiveUser(u))

(***************************************************************************)
(* C11: update merges the supplied fields into the stored record.  An      *)
(* authorised update whose body has some of the fields only, each of them  *)
(* valid (and, for a viewer, with the amount within the cap and the viewer *)
(* among the owners after the merge), succeeds; the fields of the body     *)
(* take the new values and every field the body does not have keeps its    *)
(* stored value.                                                           *)
(***************************************************************************)
UpdatableFields ==
  {"assetName", "assetType", "investedAmount", "currentValue",
   "investmentDate", "description", "notes", "owners"}

\* the stored record with the fields of the body laid over it
Merged(old, body) ==
  [f \in UpdatableFields |-> IF Has(body, f) THEN body[f] ELSE old[f]]

\* the merged record meets what create asks of a record
MergedIsValid(uid, old, body) ==
  /\ FieldsInBounds(Merged(old, body))
  /\ OwnerSetOfActiveUsers(Merged(old, body).owners)
  /\ users[uid].role = "viewer" =>
       /\ ~OverCap(Merged(old, body))
       /\ uid \in Range(Merged(old, body).owners)

C11_PartialUpdateMerges ==
  [][(/\ last'.op = "update"
      /\ Authenticated(last')
      /\ last'.id \in DOMAIN investments
      /\ (ByAdmin(last') \/ IsOwner(last'.token.userId, investments[last'.id]))
      /\ MergedIsValid(last'.token.userId, investments[last'.id], last'.body))
       => /\ last'.status = "OK"
          /\ \A f \in UpdatableFields :
                investments'[last'.id][f] =
                  Merged(investments[last'.id], last'.body)[f]]_vars

(***************************************************************************)
(* C12: a soft delete leaves the investment stored with isActive = false;  *)
(* from then on it is in no list and in no portfolio summary of any actor  *)
(* (no total and no allocation entry counts it), while get by an admin     *)
(* still returns it, with isActive = false.                                *)
(***************************************************************************)
RECURSIVE SumOver(_, _)
SumOver(S, f) ==
  IF S = {} THEN 0
  ELSE LET i == CHOOSE j \in S : TRUE
       IN investments[i][f] + SumOver(S \ {i}, f)

VisibleOfType(uid, t) == {i \in Visible(uid) : investments[i].assetType = t}

C12_SoftDeleteHides ==
  /\ (last.op = "delete" /\ last.status = "OK") =>
        ~investments[last.id].isActive
  /\ (last.op = "list" /\ last.status = "OK") =>
        \A i \in Range(last.found) : investments[i].isActive
  /\ (last.op = "summary" /\ last.status = "OK") =>
        /\ last.summary.investmentCount = Cardinality(Visible(last.token.userId))
        /\ last.summary.totalInvested =
             SumOver(Visible(last.token.userId), "investedAmount")
        /\ last.summary.totalCurrentValue =
             SumOver(Visible(last.token.userId), "currentValue")
        /\ \A k \in DOMAIN last.allocation :
              /\ last.allocation[k].count =
                   Cardinality(VisibleOfType(last.token.userId,
                                             last.allocation[k].type))
              /\ last.allocation[k].totalInvested =
                   SumOver(VisibleOfType(last.token.userId,
                                         last.allocation[k].type),
                           "investedAmount")
              /\ last.allocation[k].totalCurrentValue =
                   SumOver(VisibleOfType(last.token.userId,
                                         last.allocation[k].type),
                           "currentValue")
  /\ (/\ last.op = "get"
      /\ ByAdmin(last)
      /\ last.id \in DOMAIN investments
      /\ ~investments[last.id].isActive) =>
        (last.status = "OK" /\ last.found = <<last.id>>)

\* the summary of an admin counts one investment of two: the other one,
\* with amounts above zero, is soft-deleted
C12_Witness ==
  /\ last.op = "summary"
  /\ ByAdmin(last)
  /\ last.summary.investmentCount = 1
  /\ \E i \in DOMAIN investments :
        /\ ~investments[i].isActive
        /\ investments[i].investedAmount > 0
        /\ investments[i].currentValue > 0

(***************************************************************************)
(* C13: Active -> Inactive is one-way.  An investment with isActive =      *)
(* false stays stored with isActive = false through every create, update,  *)
(* soft delete, simulation and read by any actor.                          *)
(***************************************************************************)
C13_InactiveStaysInactive ==
  [][\A i \in DOMAIN investments :
        ~investments[i].isActive =>
           (i \in DOMAIN investments' /\ ~investments'[i].isActive)]_vars

\* an update of a soft-deleted investment went through and rewrote it
C13_Witness ==
  /\ last.op = "update"
  /\ last.status = "OK"
  /\ ~investments[last.id].isActive
  /\ investments[last.id].currentValue = last.body.currentValue
  /\ last.body.currentValue = MaxAmount

(***************************************************************************)
(* C14: the summary of portfolioSummary(actor) is the aggregation of       *)
(* exactly the investments list(actor) returns: totalInvested and          *)
(* totalCurrentValue are the sums of investedAmount and currentValue over  *)
(* them, totalGain is the sum of currentValue - investedAmount and equals  *)
(* totalCurrentValue - totalInvested, investmentCount is their number.     *)
(***************************************************************************)
\* what GET / gives the user
Listed(uid) == ListQuery(investments, users, uid)

RECURSIVE SumOfGains(_)
SumOfGains(S) ==
  IF S = {} THEN 0
  ELSE LET i == CHOOSE j \in S : TRUE
       IN (investments[i].currentValue - investments[i].investedAmount)
            + SumOfGains(S \ {i})

C14_SummaryOverListed ==
  (last.op = "summary" /\ Authenticated(last)) =>
     /\ last.status = "OK"
     /\ last.summary.totalInvested =
          SumOver(Listed(last.token.userId), "investedAmount")
     /\ last.summary.totalCurrentValue =
          SumOver(Listed(last.token.userId), "currentValue")
     /\ last.summary.totalGain = SumOfGains(Listed(last.token.userId))
     /\ last.summary.totalGain =
          last.summary.totalCurrentValue - last.summary.totalInvested
     /\ last.summary.investmentCount = Cardinality(Listed(last.token.userId))

\* a viewer's summary of the one investment of theirs, at a loss, while the
\* store holds an active investment of someone else
C14_Witness ==
  /\ last.op = "summary"
  /\ ByViewer(last)
  /\ last.summary.investmentCount = 1
  /\ last.summary.totalGain < 0
  /\ \E i \in DOMAIN investments :
        investments[i].isActive /\ ~IsOwner(last.token.userId, investments[i])

(***************************************************************************)
(* C15: the portfolio totals never divide by zero.  For an empty visible   *)
(* set the answer is the all-zero summary and not an error; whenever       *)
(* totalInvested is 0 for a set that is not empty, totalRoi is exactly 0;  *)
(* in every other case totalRoi is totalGain / totalInvested * 100.        *)
(***************************************************************************)
C15_TotalsWithoutDivisionByZero ==
  (last.op = "summary" /\ Authenticated(last)) =>
     /\ last.status = "OK"
     /\ last.summary.totalRoi.den # 0
     /\ Listed(last.token.userId) = {} =>
          last.summary = [totalInvested |-> 0, totalCurrentValue |-> 0,
                          totalGain |-> 0, totalRoi |-> Percent(0, 1),
                          investmentCount |-> 0]
     /\ last.summary.totalInvested = 0 => last.summary.totalRoi = Percent(0, 1)
     /\ last.summary.totalInvested # 0 =>
          last.summary.totalRoi =
            Percent(last.summary.totalGain, last.summary.totalInvested)

\* a summary over a set that is not empty, with nothing invested
C15_Witness ==
  /\ last.op = "summary"
  /\ last.status = "OK"
  /\ last.summary.investmentCount > 0
  /\ last.summary.totalInvested = 0
  /\ last.summary.totalRoi = Percent(0, 1)

(***************************************************************************)
(* C16: for every set of investments that is not empty, the allocation     *)
(* and the totals of one response agree: the totalInvested of the          *)
(* allocation entries add up to the totals' totalInvested, their           *)
(* totalCurrentValue to the totals' totalCurrentValue, and their count to  *)
(* investmentCount.                                                        *)
(***************************************************************************)
RECURSIVE SumEntries(_, _)
SumEntries(entries, f) ==
  IF entries = <<>> THEN 0
  ELSE Head(entries)[f] + SumEntries(Tail(entries), f)

C16_AllocationAgreesWithTotals ==
  (/\ last.op \in {"summary", "dashboard"}
   /\ last.status = "OK"
   /\ last.summary.investmentCount > 0) =>
     /\ SumEntries(last.allocation, "totalInvested") = last.summary.totalInvested
     /\ SumEntries(last.allocation, "totalCurrentValue") =
          last.summary.totalCurrentValue
     /\ SumEntries(last.allocation, "count") = last.summary.investmentCount

\* a portfolio summary with two investments of one type, with amounts
C16_Witness ==
  /\ last.op = "summary"
  /\ last.status = "OK"
  /\ last.summary.investmentCount = 2
  /\ Len(last.allocation) = 1
  /\ last.summary.totalInvested > InvestmentCap
  /\ last.summary.totalCurrentValue > 0

(***************************************************************************)
(* C17: every allocation the server returns, in the portfolio summary and  *)
(* in the dashboard, has exactly one entry for each asset type of the      *)
(* aggregated investments, none for a type that is not among them, and is  *)
(* in descending order of totalCurrentValue.                               *)
(***************************************************************************)
\* the investments a response aggregated
Aggregated(x) ==
  IF x.op = "dashboard" THEN Range(x.found) ELSE Listed(x.token.userId)

C17_AllocationPerTypeDescending ==
  (last.op \in {"summary", "dashboard"} /\ last.status = "OK") =>
     /\ {last.allocation[k].type : k \in DOMAIN last.allocation} =
          {investments[i].assetType : i \in Aggregated(last)}
     /\ \A j, k \in DOMAIN last.allocation :
           j # k => last.allocation[j].type # last.allocation[k].type
     /\ \A j, k \in DOMAIN last.allocation :
           j < k => last.allocation[j].totalCurrentValue >=
                      last.allocation[k].totalCurrentValue

(***************************************************************************)
(* C18: for every stored investment the derived metrics of the document    *)
(* are absoluteGain = currentValue - investedAmount and roi = 0 when       *)
(* investedAmount = 0, else (currentValue - investedAmount) /              *)
(* investedAmount * 100; nothing is divided by zero, and roi has the sign  *)
(* of absoluteGain whenever investedAmount > 0.                            *)
(***************************************************************************)
Sign(x) == IF x > 0 THEN 1 ELSE IF x < 0 THEN -1 ELSE 0

C18_DerivedMetrics ==
  \A i \in DOMAIN investments :
     LET inv == investments[i]
         doc == ToJSON(inv)
     IN /\ doc.absoluteGain = inv.currentValue - inv.investedAmount
        /\ doc.roi.den # 0
        /\ inv.investedAmount = 0 => doc.roi = Percent(0, 1)
        /\ inv.investedAmount # 0 =>
             doc.roi = Percent(inv.currentValue - inv.investedAmount,
                               inv.investedAmount)
        /\ inv.investedAmount > 0 =>
             Sign(doc.roi.num) * Sign(doc.roi.den) = Sign(doc.absoluteGain)

\* the store holds an investment with nothing invested and one at a loss
C18_Witness ==
  /\ \E i \in DOMAIN investments : investments[i].investedAmount = 0
  /\ \E i \in DOMAIN investments :
        /\ investments[i].investedAmount > 0
        /\ ToJSON(investments[i]).absoluteGain < 0
        /\ ToJSON(investments[i]).roi.num < 0

(***************************************************************************)
(* C19: every investment, portfolio, dashboard, export and simulation      *)
(* request without a valid token (no token, a token that does not verify,  *)
(* or a token of a user who is missing or inactive) is answered            *)
(* Unauthorized; the response has no investment, no summary, no allocation *)
(* and no simulation result, and the stores are as they were.              *)
(***************************************************************************)
ProtectedOps ==
  {"list", "get", "create", "update", "delete", "summary", "export",
   "dashboard", "simulate"}

CarriesNoData(x) ==
  /\ x.found = <<>>
  /\ x.summary = [totalInvested |-> 0, totalCurrentValue |-> 0, totalGain |-> 0,
                  totalRoi |-> Percent(0, 1), investmentCount |-> 0]
  /\ x.allocation = <<>>
  /\ "results" \in DOMAIN x => x.results = <<>>

C19_UnauthorizedWithoutToken ==
  [][(last'.op \in ProtectedOps /\ ~Authenticated(last')) =>
        /\ last'.status = "Unauthorized"
        /\ CarriesNoData(last')
        /\ investments' = investments
        /\ users' = users]_vars

\* an update of a stored investment with a token that does not verify
C19_Witness ==
  /\ last.op = "update"
  /\ last.token.sig = "bad"
  /\ last.id \in DOMAIN investments
  /\ investments[last.id].isActive
  /\ FieldsInBounds(last.body)
  /\ last.status = "Unauthorized"

(***************************************************************************)
(* C20: the simulation is for admins only.  A simulate request of an       *)
(* authenticated viewer is answered 403 without simulation results,        *)
(* whether or not the viewer owns the investment it names; a simulate      *)
(* request of an admin with an empty body is answered with one result for  *)
(* each active investment.                                                 *)
(***************************************************************************)
C20_SimulateAdminOnly ==
  /\ (last.op = "simulate" /\ ByViewer(last)) =>
        /\ last.status = "Forbidden"
        /\ last.results = <<>>
        /\ last.found = <<>>
  /\ (last.op = "simulate" /\ ByAdmin(last) /\ DOMAIN last.body = {}) =>
        /\ last.status = "OK"
        /\ {last.results[k].investmentId : k \in DOMAIN last.results} =
             {i \in DOMAIN investments : investments[i].isActive}
        /\ \A j, k \in DOMAIN last.results :
              j # k => last.results[j].investmentId # last.results[k].investmentId

\* a viewer asked for the simulation of an active investment of theirs
C20_Witness ==
  /\ last.op = "simulate"
  /\ ByViewer(last)
  /\ Has(last.body, "investmentId")
  /\ last.body.investmentId \in DOMAIN investments
  /\ investments[last.body.investmentId].isActive
  /\ IsOwner(last.token.userId, investments[last.body.investmentId])
  /\ last.status = "Forbidden"

(***************************************************************************)
(* C21: when an admin calls simulate with the investmentId of an active    *)
(* investment and a newValue, there is one result, for that investment;    *)
(* its simulatedValue is the newValue of the request, with no random       *)
(* change, and its newRoi and changePercent are computed from newValue.    *)
(***************************************************************************)
C21_SimulateUsesNewValue ==
  (/\ last.op = "simulate"
   /\ ByAdmin(last)
   /\ Has(last.body, "investmentId")
   /\ Has(last.body, "newValue")
   /\ last.body.investmentId \in DOMAIN investments
   /\ investments[last.body.investmentId].isActive) =>
     /\ last.status = "OK"
     /\ Len(last.results) = 1
     /\ last.results[1].investmentId = last.body.investmentId
     /\ last.results[1].simulatedValue =
          [kind |-> "newValue", value |-> last.body.newValue]
     /\ last.results[1].newRoi =
          [kind |-> "newValue",
           percent |-> Percent(last.body.newValue
                                 - investments[last.body.investmentId].investedAmount,
                               investments[last.body.investmentId].investedAmount)]
     /\ last.results[1].changePercent =
          [kind |-> "newValue",
           percent |-> Percent(last.body.newValue
                                 - investments[last.body.investmentId].currentValue,
                               investments[last.body.investmentId].currentValue)]

(***************************************************************************)
(* C23: create applies its checks in the documented order: field bounds,   *)
(* then owner resolution, then the owner-set policy and the cap.  A        *)
(* viewer's request that breaks a field bound (investedAmount above 1e9,   *)
(* an empty assetName) fails with ValidationError and not with             *)
(* InvestmentCapExceeded, and the ValidationError lists every violated     *)
(* field.                                                                  *)
(***************************************************************************)
\* the fields of a body that break a bound of the data model
FieldViolations(body) ==
  {f \in {"assetName"} : ~(Has(body, f) /\ Len(body[f]) \in 1..100)}
   \cup {f \in {"assetType"} :
           ~(Has(body, f)
               /\ body[f] \in {"Startup", "Crypto Fund", "Farmland",
                               "Collectible", "Other"})}
   \cup {f \in {"investedAmount", "currentValue"} :
           ~(Has(body, f) /\ AmountInBounds(body[f]))}
   \cup {f \in {"description"} : Has(body, f) /\ Len(body[f]) > 500}
   \cup {f \in {"notes"} : Has(body, f) /\ Len(body[f]) > 1000}
   \cup {f \in {"owners"} : ~(Has(body, f) /\ body[f] # <<>>)}

C23_ValidationBeforeCap ==
  (/\ last.op = "create"
   /\ Authenticated(last)
   /\ FieldViolations(last.body) # {}) =>
     /\ last.status = "ValidationError"
     /\ last.details = FieldViolations(last.body)

(***************************************************************************)
(* C23 as amended: create applies its checks in this order: the cap on a   *)
(* viewer's investedAmount, the field bounds, owner resolution, the        *)
(* owner-set policy; a request that fails several reports the earliest.    *)
(* A viewer's investedAmount above 1e9 fails with InvestmentCapExceeded;   *)
(* with the amount within the cap a broken field bound fails with          *)
(* ValidationError, which lists every violated field.                      *)
(***************************************************************************)
C23_CapBeforeValidation ==
  (last.op = "create" /\ Authenticated(last)) =>
     IF ByViewer(last) /\ OverCap(last.body)
       THEN last.status = "InvestmentCapExceeded"
     ELSE IF FieldViolations(last.body) # {}
       THEN /\ last.status = "ValidationError"
            /\ last.details = FieldViolations(last.body)
     ELSE IF \E u \in Range(last.body.owners) : ~ActiveUser(u)
       THEN last.status = "InvalidOwners"
     ELSE IF NoRepeat(last.body.owners)
       THEN IF ByViewer(last) /\ ~(last.token.userId \in Range(last.body.owners))
              THEN last.status = "ForbiddenOwnerSet"
              ELSE last.status = "Created"
     ELSE TRUE

\* a viewer's create with investedAmount above 1e9 was refused by the cap
C23_Witness ==
  /\ last.op = "create"
  /\ ByViewer(last)
  /\ Has(last.body, "investedAmount")
  /\ last.body.investedAmount > MaxAmount
  /\ "investedAmount" \in FieldViolations(last.body)
  /\ last.status = "InvestmentCapExceeded"

(***************************************************************************)
(* C27: an update of an investment that is already soft-deleted is not     *)
(* refused for that: by an admin or an owner, with valid data, it          *)
(* succeeds, rewrites the fields of the body and leaves isActive = false;  *)
(* a second soft delete of the investment succeeds and leaves the stores   *)
(* as they were.                                                           *)
(***************************************************************************)
\* the request is an update or a soft delete, by an admin or an owner, of an
\* investment that is stored with isActive = false
OnInactiveInvestment ==
  /\ last'.op \in {"update", "delete"}
  /\ Authenticated(last')
  /\ last'.id \in DOMAIN investments
  /\ ~investments[last'.id].isActive
  /\ (ByAdmin(last') \/ IsOwner(last'.token.userId, investments[last'.id]))

\* an update with valid data succeeds, rewrites the fields and leaves
\* isActive = false
UpdateOfInactiveRewrites ==
  (/\ last'.op = "update"
   /\ FieldViolations(last'.body) = {}
   /\ OwnerSetOfActiveUsers(last'.body.owners)
   /\ ByViewer(last') =>
        /\ ~OverCap(last'.body)
        /\ last'.token.userId \in Range(last'.body.owners))
    => /\ last'.status = "OK"
       /\ ~investments'[last'.id].isActive
       /\ \A f \in {"assetName", "assetType", "investedAmount",
                    "currentValue", "owners"} :
             investments'[last'.id][f] = last'.body[f]
       /\ \A i \in DOMAIN investments :
             i # last'.id => investments'[i] = investments[i]

C27_UpdateAndDeleteOfInactive ==
  [][OnInactiveInvestment
       => /\ UpdateOfInactiveRewrites
          /\ last'.op = "delete"
               => /\ last'.status = "OK"
                  /\ investments' = investments
                  /\ users' = users]_vars

(***************************************************************************)
(* C27, amended: as above, but the second soft delete writes the           *)
(* investment again: it succeeds, leaves isActive = false and every other  *)
(* field as it was, and sets updatedAt to the instant of the write.        *)
(***************************************************************************)
C27_SecondDeleteStampsUpdatedAt ==
  [][OnInactiveInvestment
       => /\ UpdateOfInactiveRewrites
          /\ last'.op = "delete"
               => /\ last'.status = "OK"
                  /\ investments' =
                       [investments EXCEPT ![last'.id].updatedAt = now]
                  /\ users' = users]_vars

\* a viewer's update of a soft-deleted investment of theirs went through
C27_Witness ==
  /\ last.op = "update"
  /\ ByViewer(last)
  /\ last.status = "OK"
  /\ ~investments[last.id].isActive
  /\ investments[last.id].assetType = "Farmland"
  /\ last.body.assetType = "Farmland"
  /\ investments[last.id].createdAt < investments[last.id].updatedAt

(***************************************************************************)
(* C28: every create, update or soft delete that ends in a failure         *)
(* (ValidationError, InvalidOwners, ForbiddenOwnerSet,                     *)
(* ForbiddenOwnerRemoval, InvestmentCapExceeded, Forbidden, NotFound,      *)
(* Unauthorized) leaves the investments and the users exactly as they      *)
(* were before the request; list, get, portfolio summary, dashboard,       *)
(* simulate and export never change either.                                *)
(***************************************************************************)
FailureOutcomes ==
  {"ValidationError", "InvalidOwners", "ForbiddenOwnerSet",
   "ForbiddenOwnerRemoval", "InvestmentCapExceeded", "Forbidden", "NotFound",
   "Unauthorized"}

ReadOps == {"list", "get", "summary", "dashboard", "simulate", "export"}

C28_FailuresAndReadsWriteNothing ==
  [][/\ (last'.op \in {"create", "update", "delete"}
           /\ last'.status \in FailureOutcomes)
          => (investments' = investments /\ users' = users)
     /\ last'.op \in {"create", "update", "delete"}
          => last'.status \in FailureOutcomes \cup {"OK", "Created"}
     /\ last'.op \in ReadOps
          => (investments' = investments /\ users' = users)]_vars

\* a viewer's soft delete of someone else's active investment was refused
C28_Witness ==
  /\ last.op = "delete"
  /\ ByViewer(last)
  /\ last.status = "Forbidden"
  /\ last.id \in DOMAIN investments
  /\ investments[last.id].isActive
  /\ investments[last.id].updatedAt = investments[last.id].createdAt

(***************************************************************************)
(* C29: the CSV export respects visibility: the export of a viewer has     *)
(* rows only for active investments whose owners include the viewer,       *)
(* never a row for an investment the viewer does not own.                  *)
(***************************************************************************)
C29_ExportOfVisibleOnly ==
  (last.op = "export" /\ ByViewer(last)) =>
     /\ last.status = "OK"
     /\ \A i \in Range(last.found) :
           /\ investments[i].isActive
           /\ IsOwner(last.token.userId, investments[i])

(***************************************************************************)
(* Vocabulary of the properties on accounts.                               *)
(***************************************************************************)
\* the step takes a POST /login
LoginStep == last = Idle /\ last'.op = "login"

\* the input of a login is malformed: no email address, or a password
\* shorter than the minimum
MalformedInput(cred) ==
  \/ cred.email \notin WellFormedEmails
  \/ Len(cred.password) < MinPasswordLen

\* the accounts of an email address, case-insensitively
AccountsOf(cred) ==
  {u \in DOMAIN users : ToLowerCase(users[u].email) = ToLowerCase(cred.email)}

\* the login is one of an active account with its password
RightCredentials(cred) ==
  /\ ~MalformedInput(cred)
  /\ \E u \in AccountsOf(cred) :
       users[u].isActive /\ users[u].password = cred.password

\* a successful login stamps lastLogin with the instant of the login and
\* issues a token of the account
LoginSucceeds ==
  \E u \in AccountsOf(last'.body) :
    /\ last'.status = "OK"
    /\ last'.issued = [userId |-> u, sig |-> "good"]
    /\ users' = [users EXCEPT ![u].lastLogin = now]

\* lastLogin changes in a successful login only
LastLoginByLoginOnly ==
  \A u \in DOMAIN users :
    users'[u].lastLogin # users[u].lastLogin
      => /\ LoginStep
         /\ last'.status = "OK"
         /\ u \in AccountsOf(last'.body)

(***************************************************************************)
(* C22: lastLogin is changed only by a successful login.  A login that     *)
(* fails (malformed input, unknown email, inactive account, wrong          *)
(* password) returns InvalidCredentials or AccountInactive, issues no      *)
(* token and leaves the users as they were; a successful login sets        *)
(* lastLogin and issues a token.                                           *)
(***************************************************************************)
C22_LastLoginOnlyBySuccessfulLogin ==
  [][/\ LastLoginByLoginOnly
     /\ LoginStep =>
          IF RightCredentials(last'.body) THEN LoginSucceeds
          ELSE /\ last'.status \in {"InvalidCredentials", "AccountInactive"}
               /\ last'.issued = NoToken
               /\ users' = users]_vars

(***************************************************************************)
(* C22, amended: as above, but a login with malformed input is answered    *)
(* with a ValidationError; one with well-formed input fails with           *)
(* AccountInactive when the account of the email is inactive, whatever the *)
(* password, and with InvalidCredentials when there is no such account or  *)
(* the password is wrong.  No failure issues a token or changes a user.    *)
(***************************************************************************)
C22_MalformedLoginIsValidationError ==
  [][/\ LastLoginByLoginOnly
     /\ LoginStep =>
          IF RightCredentials(last'.body) THEN LoginSucceeds
          ELSE /\ last'.status =
                    IF MalformedInput(last'.body) THEN "ValidationError"
                    ELSE IF \E u \in AccountsOf(last'.body) : ~users[u].isActive
                      THEN "AccountInactive"
                      ELSE "InvalidCredentials"
               /\ last'.issued = NoToken
               /\ users' = users]_vars

\* the viewer logged in, writing the address in capitals, after the clock
\* advanced
C22_Witness ==
  /\ last.op = "login"
  /\ last.status = "OK"
  /\ last.body.email = "Viewer@Altfolio.com"
  /\ last.issued = [userId |-> "v", sig |-> "good"]
  /\ users["v"].lastLogin = now
  /\ now > Today
  /\ users["a"].lastLogin = NeverLoggedIn

(***************************************************************************)
(* C30: once a user's isActive is false, it stays false; every request     *)
(* that carries a token issued to that user is rejected as Unauthorized,   *)
(* reads nothing and writes nothing; every login for that account fails    *)
(* with AccountInactive, even with the correct password; the deactivation  *)
(* leaves the investments as they were.                                    *)
(***************************************************************************)
\* no step activates an account, and deactivating one writes no investment
DeactivationIsFinal ==
  /\ \A u \in DOMAIN users : ~users[u].isActive => ~users'[u].isActive
  /\ (\E u \in DOMAIN users : users[u].isActive /\ ~users'[u].isActive)
       => investments' = investments

\* a request with a token of an inactive user is rejected and does nothing
TokenOfInactiveRejected ==
  (/\ last = Idle
   /\ last'.op \in ProtectedOps
   /\ last'.token.sig = "good"
   /\ ~users[last'.token.userId].isActive)
    => /\ last'.status = "Unauthorized"
       /\ CarriesNoData(last')
       /\ investments' = investments
       /\ users' = users

C30_DeactivationRevokesAccess ==
  [][/\ DeactivationIsFinal
     /\ TokenOfInactiveRejected
     /\ (LoginStep /\ \E u \in AccountsOf(last'.body) : ~users[u].isActive)
          => /\ last'.status = "AccountInactive"
             /\ last'.issued = NoToken
             /\ investments' = investments
             /\ users' = users]_vars

(***************************************************************************)
(* C30, amended: as above, but for the logins: a login for the account     *)
(* with well-formed input fails with AccountInactive, even with the        *)
(* correct password; one with malformed input fails with a                 *)
(* ValidationError.  Neither issues a token or writes anything.            *)
(***************************************************************************)
C30_WellFormedLoginOfInactiveRefused ==
  [][/\ DeactivationIsFinal
     /\ TokenOfInactiveRejected
     /\ (LoginStep /\ \E u \in AccountsOf(last'.body) : ~users[u].isActive)
          => /\ last'.status =
                  IF MalformedInput(last'.body) THEN "ValidationError"
                  ELSE "AccountInactive"
             /\ last'.issued = NoToken
             /\ investments' = investments
             /\ users' = users]_vars

\* the viewer logged in, was deactivated, and sent an update of an
\* investment of theirs with the token
C30_Witness ==
  /\ last.op = "update"
  /\ last.token = [userId |-> "v", sig |-> "good"]
  /\ last.status = "Unauthorized"
  /\ ~users["v"].isActive
  /\ users["v"].lastLogin # NeverLoggedIn
  /\ last.id \in DOMAIN investments
  /\ "v" \in Range(investments[last.id].owners)
  /\ investments[last.id].isActive

\* the viewer, deactivated, was refused a login with the right password
C30_LoginWitness ==
  /\ last.op = "login"
  /\ last.body = [email |-> "viewer@altfolio.com", password |-> "viewer123"]
  /\ last.status = "AccountInactive"
  /\ ~users["v"].isActive

(***************************************************************************)
(* Vocabulary of the properties on requests in flight together.            *)
(***************************************************************************)
\* the requests that wrote investment id
WritersOf(id) ==
  {k \in DOMAIN inflight : inflight[k].id = id /\ inflight[k].wrote > 0}

\* request k is an update that succeeded and was the last to write its
\* investment, after another update of it that succeeded
LastOfTwoUpdates(j, k) ==
  /\ j # k
  /\ inflight[j].op = "update" /\ inflight[k].op = "update"
  /\ inflight[j].status = "OK" /\ inflight[k].status = "OK"
  /\ inflight[j].id = inflight[k].id
  /\ inflight[j].wrote < inflight[k].wrote
  /\ \A w \in WritersOf(inflight[k].id) : inflight[w].wrote <= inflight[k].wrote

\* the value of a field of the record that an update gives: what its body
\* has, the instant of the write for a date left out, nothing otherwise
FieldOf(req, f) ==
  IF Has(req.body, f) THEN req.body[f]
  ELSE IF f = "investmentDate" THEN now
  ELSE "undefined"

\* the step is the write of request k
WriteStepOf(k) ==
  /\ k \in DOMAIN inflight
  /\ inflight[k].pc = "write"
  /\ inflight'[k].pc = "done"

(***************************************************************************)
(* C24: of two authorised updates of one investment, interleaved in any    *)
(* way, the one that wrote last gives the stored record all its updatable  *)
(* fields (assetName, assetType, investedAmount, currentValue,             *)
(* investmentDate, description, notes, owners): never a mixture of the     *)
(* two.                                                                    *)
(***************************************************************************)
C24_LastWriteWinsEveryField ==
  \A j, k \in DOMAIN inflight :
    LastOfTwoUpdates(j, k)
      => \A f \in UpdatableFields :
           investments[inflight[k].id][f] = FieldOf(inflight[k], f)

(***************************************************************************)
(* C24, amended: the write of an update is one write of the document as it *)
(* is stored at that moment: it sets every field the request supplies      *)
(* (the five required ones always, investmentDate to the request's or to   *)
(* the instant of the write) and leaves a description or notes the request *)
(* does not supply, isActive and createdAt as the write before left them;  *)
(* no other investment changes.  So after two interleaved updates every    *)
(* field the last one supplies is its own, and the others are the earlier  *)
(* write's.                                                                *)
(***************************************************************************)
C24_LastWriteWinsSuppliedFields ==
  [][\A k \in DOMAIN inflight :
       (WriteStepOf(k) /\ inflight[k].op = "update")
         => LET id == inflight[k].id
            IN /\ \A f \in UpdatableFields :
                    investments'[id][f] =
                      IF Has(inflight[k].body, f) \/ f = "investmentDate"
                        THEN FieldOf(inflight[k], f)
                        ELSE investments[id][f]
               /\ investments'[id].isActive = investments[id].isActive
               /\ investments'[id].createdAt = investments[id].createdAt
               /\ \A i \in DOMAIN investments :
                    i # id => investments'[i] = investments[i]]_vars

\* two updates of one investment were both taken before either wrote, the
\* first taken wrote last, and the record has its type and the description
\* of the other
C24_Witness ==
  /\ Len(inflight) = 2
  /\ LastOfTwoUpdates(2, 1)
  /\ inflight[1].body.assetType = "Farmland"
  /\ Has(inflight[2].body, "description")
  /\ investments[inflight[1].id].assetType = "Farmland"
  /\ investments[inflight[1].id].description = inflight[2].body.description

(***************************************************************************)
(* C25: a viewer's update or soft delete changes the stored investment     *)
(* only if the viewer is among its owners in the store just before the     *)
(* write; when another request removes the viewer from the owners between  *)
(* the viewer's access check and the viewer's write, the write is not      *)
(* applied.                                                                *)
(***************************************************************************)
C25_NoWriteOnStaleAccess ==
  [][\A k \in DOMAIN inflight :
       (/\ WriteStepOf(k)
        /\ users[inflight[k].token.userId].role = "viewer"
        /\ investments' # investments)
         => IsOwner(inflight[k].token.userId, investments[inflight[k].id])]_vars

(***************************************************************************)
(* C26: when an update and a soft delete of one investment are in flight   *)
(* together and both succeed, the investment ends with isActive = false,   *)
(* in whatever order they were taken and wrote: the write of an update     *)
(* never changes isActive.                                                 *)
(***************************************************************************)
C26_SoftDeleteSurvivesUpdate ==
  \A j, k \in DOMAIN inflight :
    (/\ inflight[j].op = "update" /\ inflight[j].status = "OK"
     /\ inflight[k].op = "delete" /\ inflight[k].status = "OK"
     /\ inflight[j].id = inflight[k].id)
      => ~investments[inflight[j].id].isActive

\* the investment was active when both were taken; the soft delete wrote
\* first, the update after it
C26_Witness ==
  \E j, k \in DOMAIN inflight :
    /\ inflight[j].op = "update" /\ inflight[j].status = "OK"
    /\ inflight[k].op = "delete" /\ inflight[k].status = "OK"
    /\ inflight[j].id = inflight[k].id
    /\ inflight[j].loaded[1].isActive
    /\ inflight[k].loaded[1].isActive
    /\ inflight[k].wrote < inflight[j].wrote
    /\ investments[inflight[j].id].assetType = inflight[j].body.assetType
    /\ ~investments[inflight[j].id].isActive

====
